---- MODULE Spec2Model ----
(***************************************************************************)
(* Model of pytorch_pfn_extras/profiler/_tracing.py: the ChromeTracer      *)
(* event recorder, the threads that run add_event spans on it and the      *)
(* owner operations enable, flush, state_dict, load_state_dict and clear;  *)
(* the DummyTracer and the registry of get_tracer and clear_tracer; and of *)
(* distributed/_dataset_util.py: create_distributed_subset_indices.        *)
(*                                                                         *)
(* Every statement of the source that reads or writes a field of the       *)
(* tracer is one step of the thread that runs it, so that the steps of     *)
(* several threads interleave the way the interpreter may interleave them. *)
(***************************************************************************)
EXTENDS Integers, Sequences, FiniteSets, TLC

(* ------------------------------ bounds --------------------------------- *)
\* Spec: spans one thread enters, and owner calls (enable, flush, state_dict,
\* load_state_dict, clear) of all threads together
MaxSpans == 1
MaxCalls == 2
\* SpecSeq and SpecOne: spans the thread enters, spans it has open at the
\* same time (nesting), and (SpecSeq) owner calls
SeqSpans == 3
SeqDepth == 2
SeqCalls == 2
\* SpecSpans: spans each thread enters (M), and has open at the same time
ConcSpans == 2
ConcDepth == 1
\* SpecLoad: spans the thread enters, and calls of load_state_dict
LoadSpans == 2
LoadCalls == 1
\* SpecSubset: the largest num_total_samples, num_replicas and seed
MaxSamples == 4
MaxReplicas == 3
MaxSeed == 5
\* SpecRegistry: spans the thread enters
RegSpans == 2
\* largest max_event_count given to the constructor
MaxCap == 2
\* readings of the monotonic clock run from 0 to MaxClock
MaxClock == 1

\* the threads that use the tracer
Threads == {1, 2}
\* what the clock may read
Times == 0 .. MaxClock
\* what it reads in SpecSeq, where no property is about a time
SeqTimes == {0}
\* errors the code inside a span can raise
Errors == {"RuntimeError"}
\* names flush is given
Filenames == {"trace.json"}

(* ------------------------- values of the code -------------------------- *)
\* Optional[int]: <<>> is None, <<k>> is the integer k
None == <<>>
Some(k) == <<k>>
\* a max count is either float("inf") or a finite number
Inf == [inf |-> TRUE, n |-> 0]
Fin(k) == [inf |-> FALSE, n |-> k]

\* max_event_count or float("inf"): Python's `or` yields its right operand
\* when the left one is falsy, and both None and 0 are falsy
OrInf(max_event_count) ==
    IF max_event_count = None \/ max_event_count = Some(0)
    THEN Inf
    ELSE Fin(max_event_count[1])

\* faulty variant: the comparison of two numbers, float("inf") not told apart
BelowCap_NoInf(event_count, max) == event_count < max.n

\* self._event_count < self._max_event_count
BelowCap(event_count, max) == max.inf \/ event_count < max.n

\* begin_ns / 1000: true division, the float num / den
TrueDiv(num, den) == [num |-> num, den |-> den]

\* the name the n-th span of thread t is given by its caller
NameOf(t, n) == <<t, n>>

\* os.getpid()
Pid == 4242
\* threading.get_native_id()
NativeId(t) == 100 + t

\* the dict appended by add_event
Event(name, begin_ns, duration_ns, pid, tid) ==
    [name |-> name, cat |-> "", ph |-> "X",
     ts |-> TrueDiv(begin_ns, 1000), dur |-> TrueDiv(duration_ns, 1000),
     pid |-> pid, tid |-> tid]

EventKeys == {"name", "cat", "ph", "ts", "dur", "pid", "tid"}

(* ------------------------------- JSON ---------------------------------- *)
\* json.dumps of one event: the members of the object, in the order of insertion
json_dumps_event(e) ==
    << <<"name", e.name>>, <<"cat", e.cat>>, <<"ph", e.ph>>, <<"ts", e.ts>>,
       <<"dur", e.dur>>, <<"pid", e.pid>>, <<"tid", e.tid>> >>

\* json.dumps of the event list: an array of objects
json_dumps(event_list) ==
    [i \in 1 .. Len(event_list) |-> json_dumps_event(event_list[i])]

\* json.loads of one object: a dict of its members, the last one of a key winning
json_loads_event(obj) ==
    [k \in {obj[i][1] : i \in 1 .. Len(obj)} |->
        LET last == CHOOSE i \in 1 .. Len(obj) :
                        /\ obj[i][1] = k
                        /\ \A j \in 1 .. Len(obj) : obj[j][1] = k => j <= i
        IN  obj[last][2]]

\* json.loads of an array of objects
json_loads(text) ==
    [i \in 1 .. Len(text) |-> json_loads_event(text[i])]

(* ------------------------------- state --------------------------------- *)
VARIABLES
    max_event_count,     \* the argument the tracer was constructed with
    _enable,             \* self._enable
    _event_list,         \* self._event_list
    _max_event_count,    \* self._max_event_count
    _event_count,        \* self._event_count
    _is_cuda_available,  \* self._is_cuda_available
    clock,               \* what time.perf_counter_ns() returns now
    stack,               \* per thread: its open add_event spans, innermost last
    call,                \* per thread: the call it is in, or the one it made last
    started,             \* per thread: how many spans it has entered
    ncalls,              \* owner calls begun so far
    saved,               \* the snapshot at hand, if any: the one state_dict()
                         \*   returned last, or one read from a checkpoint
    writer_calls,        \* what writer was called with, in order
    nsync,               \* how often torch.cuda.synchronize() has been called
    _tracer,             \* the module's global _tracer: the tracer it holds
    created,             \* how many tracers get_tracer has constructed
    result,              \* the call of the registry or of a DummyTracer made last
    num_total_samples,   \* create_distributed_subset_indices: its arguments
    num_replicas,        \*   num_total_samples, num_replicas, shuffle and
    shuffle,             \*   seed, the same on every rank,
    seed,
    returned             \* and the list it has returned, per rank

tracer == <<_enable, _event_list, _max_event_count, _event_count>>
registry == <<_tracer, created, result>>
dataset == <<num_total_samples, num_replicas, shuffle, seed, returned>>
vars == <<max_event_count, _enable, _event_list, _max_event_count,
          _event_count, _is_cuda_available, clock, stack, call, started,
          ncalls, saved, writer_calls, nsync, registry, dataset>>

\* a thread that has called nothing yet
\* op: the method; pc: where the thread is in it ("done": it has returned);
\* arg: what it was called with; prev: the call the thread made before it
NoCall == [op |-> "none", pc |-> "done", arg |-> <<>>, prev |-> "none"]
Returned(op, arg, prev) == [op |-> op, pc |-> "done", arg |-> arg, prev |-> prev]
\* __exit__ has returned: the with-block had raised exc (or None), and the
\* with statement raises ret (or None) in its caller
Exited(exc, ret) ==
    [op |-> "__exit__", pc |-> "done", arg |-> exc, prev |-> "none", ret |-> ret]

\* ChromeTracer.__init__
ChromeTracer_init(max, enable, cuda) ==
    /\ max_event_count = max
    /\ _enable = enable
    /\ _event_list = <<>>
    /\ _max_event_count = OrInf(max)
    /\ _event_count = 0
    /\ _is_cuda_available = cuda

\* no thread has done anything yet
NoThread ==
    /\ clock = 0
    /\ stack = [t \in Threads |-> <<>>]
    /\ call = [t \in Threads |-> NoCall]
    /\ started = [t \in Threads |-> 0]
    /\ ncalls = 0
    /\ saved = None
    /\ writer_calls = <<>>
    /\ nsync = 0

\* a call of the registry or of a DummyTracer: ret is what it returned and
\* raised the exception it raised, if any
NoResult == [op |-> "none", pc |-> "done", ret |-> None, raised |-> None]

\* _tracer: Optional[Tracer] = None
NoRegistry ==
    /\ _tracer = None
    /\ created = 0
    /\ result = NoResult

\* create_distributed_subset_indices has not been called
NoDataset ==
    /\ num_total_samples = 0
    /\ num_replicas = 1
    /\ shuffle = FALSE
    /\ seed = 0
    /\ returned = <<>>

\* a ChromeTracer that was constructed by its user, with any arguments
Init ==
    /\ \E max \in {None} \cup {Some(k) : k \in 0 .. MaxCap},
          enable \in BOOLEAN, cuda \in BOOLEAN :
            ChromeTracer_init(max, enable, cuda)
    /\ NoThread
    /\ NoRegistry
    /\ NoDataset

(* --------------------------- small helpers ------------------------------ *)
Top(t) == stack[t][Len(stack[t])]
Front(s) == SubSeq(s, 1, Len(s) - 1)
SetTop(t, f) == [stack EXCEPT ![t] = [@ EXCEPT ![Len(@)] = f]]

\* thread t is running its own code: it is in no call of the tracer, and
\* the span it is in, if any, is running its with-block
InUserCode(t) ==
    /\ call[t].pc = "done"
    /\ stack[t] # <<>> => Top(t).pc = "body"

\* thread t is at statement pc of the finally block of its innermost span
InFinally(t, pc) ==
    /\ stack[t] # <<>>
    /\ Top(t).pc = pc

\* faulty variant: a finally block that ends in a return swallows the exception
Propagate_Swallowed(exc) == None

\* try: yield / finally: ... -- a finally block that ends without return or
\* raise lets the exception that entered it go on to the caller unchanged
Propagate(exc) == exc

\* the finally block is left: the span is closed and __exit__ hands exc on
Leave(t) ==
    /\ stack' = [stack EXCEPT ![t] = Front(@)]
    /\ call' = [call EXCEPT ![t] = Exited(Top(t).exc, Propagate(Top(t).exc))]

(* --------------------------- the clock --------------------------------- *)
\* time.perf_counter_ns() returns now: the clock is monotonic, so now is not
\* before the reading made last, by whatever thread
perf_counter_ns(now) ==
    /\ now >= clock
    /\ clock' = now

(* ------------------------ ChromeTracer.add_event ----------------------- *)
\* faulty variant: the record is appended when the span is entered
add_event_enter_Records(t, begin_ns) ==
    /\ InUserCode(t)
    /\ perf_counter_ns(begin_ns)
    /\ LET name == NameOf(t, started[t] + 1) IN
        /\ stack' = [stack EXCEPT ![t] = Append(@,
                        [name |-> name, begin_ns |-> begin_ns, pc |-> "body",
                         exc |-> None, cnt |-> 0, duration_ns |-> 0])]
        /\ call' = [call EXCEPT ![t] = Returned("__enter__", name, "none")]
        /\ _event_list' = Append(_event_list,
                                 Event(name, begin_ns, 0, Pid, NativeId(t)))
    /\ started' = [started EXCEPT ![t] = @ + 1]
    /\ UNCHANGED <<nsync, registry, dataset>>
    /\ UNCHANGED <<max_event_count, _enable, _max_event_count,
                   _event_count, _is_cuda_available, ncalls, saved,
                   writer_calls>>

\* begin_ns = time.perf_counter_ns(); try: yield
add_event_enter(t, begin_ns) ==
    /\ InUserCode(t)
    /\ perf_counter_ns(begin_ns)
    /\ LET name == NameOf(t, started[t] + 1) IN
        /\ stack' = [stack EXCEPT ![t] = Append(@,
                        [name |-> name, begin_ns |-> begin_ns, pc |-> "body",
                         exc |-> None, cnt |-> 0, duration_ns |-> 0])]
        /\ call' = [call EXCEPT ![t] = Returned("__enter__", name, "none")]
    /\ started' = [started EXCEPT ![t] = @ + 1]
    /\ UNCHANGED <<nsync, registry, dataset>>
    /\ UNCHANGED <<max_event_count, _enable, _event_list, _max_event_count,
                   _event_count, _is_cuda_available, ncalls, saved,
                   writer_calls>>

\* the with-block ends, normally (exc = None) or by raising exc, and the
\* finally block begins: if self._enable and ...
add_event_if_enable(t, exc) ==
    /\ InUserCode(t)
    /\ stack[t] # <<>>
    /\ IF _enable
       THEN /\ stack' = SetTop(t, [Top(t) EXCEPT !.pc = "if_count", !.exc = exc])
            /\ call' = [call EXCEPT ![t] =
                            [op |-> "__exit__", pc |-> "finally", arg |-> exc,
                             prev |-> "none"]]
       ELSE /\ stack' = [stack EXCEPT ![t] = Front(@)]
            /\ call' = [call EXCEPT ![t] = Exited(exc, Propagate(exc))]
    /\ UNCHANGED <<nsync, registry, dataset>>
    /\ UNCHANGED <<max_event_count, _enable, _event_list, _max_event_count,
                   _event_count, _is_cuda_available, clock, started, ncalls,
                   saved, writer_calls>>

\* faulty variant: a span that is recorded synchronizes, accelerator or not
add_event_if_count_SyncAlways(t) ==
    /\ InFinally(t, "if_count")
    /\ IF BelowCap(_event_count, _max_event_count)
       THEN /\ stack' = SetTop(t, [Top(t) EXCEPT !.pc = "sync"])
            /\ call' = call
       ELSE Leave(t)
    /\ UNCHANGED <<nsync, registry, dataset>>
    /\ UNCHANGED <<max_event_count, _enable, _event_list, _max_event_count,
                   _event_count, _is_cuda_available, clock, started, ncalls,
                   saved, writer_calls>>

\* faulty variant: the length of the buffer is what is held against the max
add_event_if_count_ByLength(t) ==
    /\ InFinally(t, "if_count")
    /\ IF BelowCap(Len(_event_list), _max_event_count)
       THEN /\ stack' = SetTop(t, [Top(t) EXCEPT
                            !.pc = IF _is_cuda_available THEN "sync" ELSE "load"])
            /\ call' = call
       ELSE Leave(t)
    /\ UNCHANGED <<nsync, registry, dataset>>
    /\ UNCHANGED <<max_event_count, _enable, _event_list, _max_event_count,
                   _event_count, _is_cuda_available, clock, started, ncalls,
                   saved, writer_calls>>

\* ... self._event_count < self._max_event_count (the max count is written
\* by load_state_dict alone; the two loads are one step)
add_event_if_count(t) ==
    /\ InFinally(t, "if_count")
    /\ IF BelowCap(_event_count, _max_event_count)
       THEN /\ stack' = SetTop(t, [Top(t) EXCEPT
                            !.pc = IF _is_cuda_available THEN "sync" ELSE "load"])
            /\ call' = call
       ELSE Leave(t)
    /\ UNCHANGED <<nsync, registry, dataset>>
    /\ UNCHANGED <<max_event_count, _enable, _event_list, _max_event_count,
                   _event_count, _is_cuda_available, clock, started, ncalls,
                   saved, writer_calls>>

\* if self._is_cuda_available: torch.cuda.synchronize()
add_event_synchronize(t) ==
    /\ InFinally(t, "sync")
    /\ stack' = SetTop(t, [Top(t) EXCEPT !.pc = "load"])
    /\ nsync' = nsync + 1
    /\ UNCHANGED <<registry, dataset>>
    /\ UNCHANGED <<max_event_count, _enable, _event_list, _max_event_count,
                   _event_count, _is_cuda_available, clock, call, started,
                   ncalls, saved, writer_calls>>

\* self._event_count += 1: the counter is loaded ...
add_event_count_load(t) ==
    /\ InFinally(t, "load")
    /\ stack' = SetTop(t, [Top(t) EXCEPT !.pc = "store", !.cnt = _event_count])
    /\ UNCHANGED <<nsync, registry, dataset>>
    /\ UNCHANGED <<max_event_count, _enable, _event_list, _max_event_count,
                   _event_count, _is_cuda_available, clock, call, started,
                   ncalls, saved, writer_calls>>

\* ... and the value loaded, plus one, is stored
add_event_count_store(t) ==
    /\ InFinally(t, "store")
    /\ _event_count' = Top(t).cnt + 1
    /\ stack' = SetTop(t, [Top(t) EXCEPT !.pc = "duration", !.cnt = 0])
    /\ UNCHANGED <<nsync, registry, dataset>>
    /\ UNCHANGED <<max_event_count, _enable, _event_list, _max_event_count,
                   _is_cuda_available, clock, call, started, ncalls, saved,
                   writer_calls>>

\* duration_ns = time.perf_counter_ns() - begin_ns
add_event_duration(t, now) ==
    /\ InFinally(t, "duration")
    /\ perf_counter_ns(now)
    /\ stack' = SetTop(t, [Top(t) EXCEPT
                    !.pc = "append", !.duration_ns = now - Top(t).begin_ns])
    /\ UNCHANGED <<nsync, registry, dataset>>
    /\ UNCHANGED <<max_event_count, _enable, _event_list, _max_event_count,
                   _event_count, _is_cuda_available, call, started, ncalls,
                   saved, writer_calls>>

\* tid = threading.get_native_id(); self._event_list.append(dict(...))
add_event_append(t) ==
    /\ InFinally(t, "append")
    /\ _event_list' = Append(_event_list,
            Event(Top(t).name, Top(t).begin_ns, Top(t).duration_ns, Pid,
                  NativeId(t)))
    /\ Leave(t)
    /\ UNCHANGED <<nsync, registry, dataset>>
    /\ UNCHANGED <<max_event_count, _enable, _max_event_count, _event_count,
                   _is_cuda_available, clock, started, ncalls, saved,
                   writer_calls>>

\* the steps of the exit of an add_event span, the clock reading one of times
add_event_exit(t, times) ==
    \/ \E exc \in {None} \cup {Some(e) : e \in Errors} : add_event_if_enable(t, exc)
    \/ add_event_if_count(t)
    \/ add_event_synchronize(t)
    \/ add_event_count_load(t)
    \/ add_event_count_store(t)
    \/ \E now \in times : add_event_duration(t, now)
    \/ add_event_append(t)

(* ------------------------- ChromeTracer.enable ------------------------- *)
\* faulty variant: enable that starts over with an empty buffer
enable_Discards(t, enable_flag) ==
    /\ InUserCode(t)
    /\ ncalls' = ncalls + 1
    /\ _enable' = enable_flag
    /\ _event_list' = <<>>
    /\ call' = [call EXCEPT ![t] = Returned("enable", enable_flag, "none")]
    /\ UNCHANGED <<nsync, registry, dataset>>
    /\ UNCHANGED <<max_event_count, _max_event_count, _event_count,
                   _is_cuda_available, clock, stack, started, saved,
                   writer_calls>>

\* self._enable = enable_flag
enable(t, enable_flag) ==
    /\ InUserCode(t)
    /\ ncalls' = ncalls + 1
    /\ _enable' = enable_flag
    /\ call' = [call EXCEPT ![t] = Returned("enable", enable_flag, "none")]
    /\ UNCHANGED <<nsync, registry, dataset>>
    /\ UNCHANGED <<max_event_count, _event_list, _max_event_count,
                   _event_count, _is_cuda_available, clock, stack, started,
                   saved, writer_calls>>

(* -------------------------- ChromeTracer.flush ------------------------- *)
\* faulty variant: flush without its check of the enabled flag
flush_Always(t, filename) ==
    /\ InUserCode(t)
    /\ ncalls' = ncalls + 1
    /\ call' = [call EXCEPT ![t] =
                    [op |-> "flush", pc |-> "writer", arg |-> filename,
                     prev |-> @.op]]
    /\ UNCHANGED <<nsync, registry, dataset>>
    /\ UNCHANGED <<max_event_count, _enable, _event_list, _max_event_count,
                   _event_count, _is_cuda_available, clock, stack, started,
                   saved, writer_calls>>

\* if not self._enable: return
flush_if_not_enable(t, filename) ==
    /\ InUserCode(t)
    /\ ncalls' = ncalls + 1
    /\ call' = [call EXCEPT ![t] =
                    IF ~_enable
                    THEN Returned("flush", filename, @.op)
                    ELSE [op |-> "flush", pc |-> "writer", arg |-> filename,
                          prev |-> @.op]]
    /\ UNCHANGED <<nsync, registry, dataset>>
    /\ UNCHANGED <<max_event_count, _enable, _event_list, _max_event_count,
                   _event_count, _is_cuda_available, clock, stack, started,
                   saved, writer_calls>>

\* faulty variant: a flush that empties the buffer it has written
flush_writer_Drains(t) ==
    /\ call[t].op = "flush"
    /\ call[t].pc = "writer"
    /\ writer_calls' = Append(writer_calls,
            [filename |-> call[t].arg, out_dir |-> "", target |-> _event_list])
    /\ _event_list' = <<>>
    /\ call' = [call EXCEPT ![t] = Returned("flush", @.arg, @.prev)]
    /\ UNCHANGED <<nsync, registry, dataset>>
    /\ UNCHANGED <<max_event_count, _enable, _max_event_count,
                   _event_count, _is_cuda_available, clock, stack, started,
                   ncalls, saved>>

\* writer(filename, "", self._event_list, savefun=savefun)
flush_writer(t) ==
    /\ call[t].op = "flush"
    /\ call[t].pc = "writer"
    /\ writer_calls' = Append(writer_calls,
            [filename |-> call[t].arg, out_dir |-> "", target |-> _event_list])
    /\ call' = [call EXCEPT ![t] = Returned("flush", @.arg, @.prev)]
    /\ UNCHANGED <<nsync, registry, dataset>>
    /\ UNCHANGED <<max_event_count, _enable, _event_list, _max_event_count,
                   _event_count, _is_cuda_available, clock, stack, started,
                   ncalls, saved>>

(* -------------------------- ChromeTracer.clear ------------------------- *)
\* faulty variant: clear that resets the counter and keeps the buffer
clear_KeepsList(t) ==
    /\ InUserCode(t)
    /\ ncalls' = ncalls + 1
    /\ call' = [call EXCEPT ![t] =
                    [op |-> "clear", pc |-> "count", arg |-> <<>>, prev |-> "none"]]
    /\ UNCHANGED <<nsync, registry, dataset>>
    /\ UNCHANGED <<max_event_count, _enable, _event_list, _max_event_count,
                   _event_count, _is_cuda_available, clock, stack, started,
                   saved, writer_calls>>

\* self._event_list = []
clear_event_list(t) ==
    /\ InUserCode(t)
    /\ ncalls' = ncalls + 1
    /\ _event_list' = <<>>
    /\ call' = [call EXCEPT ![t] =
                    [op |-> "clear", pc |-> "count", arg |-> <<>>, prev |-> "none"]]
    /\ UNCHANGED <<nsync, registry, dataset>>
    /\ UNCHANGED <<max_event_count, _enable, _max_event_count, _event_count,
                   _is_cuda_available, clock, stack, started, saved,
                   writer_calls>>

\* faulty variant: a clear that leaves the counter where it is
clear_event_count_Keeps(t) ==
    /\ call[t].op = "clear"
    /\ call[t].pc = "count"
    /\ call' = [call EXCEPT ![t] = Returned("clear", <<>>, @.prev)]
    /\ UNCHANGED <<nsync, registry, dataset>>
    /\ UNCHANGED <<max_event_count, _enable, _event_list, _max_event_count,
                   _event_count, _is_cuda_available, clock, stack, started,
                   ncalls, saved, writer_calls>>

\* self._event_count = 0
clear_event_count(t) ==
    /\ call[t].op = "clear"
    /\ call[t].pc = "count"
    /\ _event_count' = 0
    /\ call' = [call EXCEPT ![t] = Returned("clear", <<>>, @.prev)]
    /\ UNCHANGED <<nsync, registry, dataset>>
    /\ UNCHANGED <<max_event_count, _enable, _event_list, _max_event_count,
                   _is_cuda_available, clock, stack, started, ncalls, saved,
                   writer_calls>>

(* ------------------------ ChromeTracer.state_dict ---------------------- *)
\* state = {}; state["_enable"] = self._enable
state_dict_enable(t) ==
    /\ InUserCode(t)
    /\ ncalls' = ncalls + 1
    /\ call' = [call EXCEPT ![t] =
                    [op |-> "state_dict", pc |-> "event_list",
                     arg |-> ("_enable" :> _enable), prev |-> "none"]]
    /\ UNCHANGED <<nsync, registry, dataset>>
    /\ UNCHANGED <<max_event_count, _enable, _event_list, _max_event_count,
                   _event_count, _is_cuda_available, clock, stack, started,
                   saved, writer_calls>>

\* state["_event_list"] = json.dumps(self._event_list)
state_dict_event_list(t) ==
    /\ call[t].op = "state_dict"
    /\ call[t].pc = "event_list"
    /\ call' = [call EXCEPT ![t] =
                    [@ EXCEPT !.pc = "max_event_count",
                              !.arg = ("_event_list" :> json_dumps(_event_list)) @@ @]]
    /\ UNCHANGED <<nsync, registry, dataset>>
    /\ UNCHANGED <<max_event_count, _enable, _event_list, _max_event_count,
                   _event_count, _is_cuda_available, clock, stack, started,
                   ncalls, saved, writer_calls>>

\* state["_max_event_count"] = self._max_event_count
state_dict_max_event_count(t) ==
    /\ call[t].op = "state_dict"
    /\ call[t].pc = "max_event_count"
    /\ call' = [call EXCEPT ![t] =
                    [@ EXCEPT !.pc = "event_count",
                              !.arg = ("_max_event_count" :> _max_event_count) @@ @]]
    /\ UNCHANGED <<nsync, registry, dataset>>
    /\ UNCHANGED <<max_event_count, _enable, _event_list, _max_event_count,
                   _event_count, _is_cuda_available, clock, stack, started,
                   ncalls, saved, writer_calls>>

\* state["_event_count"] = self._event_count; return state
state_dict_event_count(t) ==
    /\ call[t].op = "state_dict"
    /\ call[t].pc = "event_count"
    /\ saved' = Some(("_event_count" :> _event_count) @@ call[t].arg)
    /\ call' = [call EXCEPT ![t] = Returned("state_dict", <<>>, @.prev)]
    /\ UNCHANGED <<nsync, registry, dataset>>
    /\ UNCHANGED <<max_event_count, _enable, _event_list, _max_event_count,
                   _event_count, _is_cuda_available, clock, stack, started,
                   ncalls, writer_calls>>

\* the statements of state_dict after the first
state_dict_rest(t) ==
    \/ state_dict_event_list(t)
    \/ state_dict_max_event_count(t)
    \/ state_dict_event_count(t)

(* ---------------------- ChromeTracer.load_state_dict ------------------- *)
\* faulty variant: load_state_dict that leaves the tracer enabled
LoadStateDict_Enabled(to_load) ==
    <<TRUE, json_loads(to_load._event_list),
      to_load._max_event_count, to_load._event_count>>

\* the four fields load_state_dict(to_load) leaves in the tracer
LoadStateDict(to_load) ==
    <<to_load._enable, json_loads(to_load._event_list),
      to_load._max_event_count, to_load._event_count>>

\* the snapshots a checkpoint may hold: any flag, max count and counter, and
\* a buffer of no record or of one record of an earlier run
Snapshots ==
    [_enable : BOOLEAN,
     _event_list : {json_dumps(<<>>),
                    json_dumps(<<Event(NameOf(2, 1), 0, 0, Pid, NativeId(2))>>)},
     _max_event_count : {Inf} \cup {Fin(k) : k \in 1 .. MaxCap},
     _event_count : 0 .. MaxCap]

\* the caller of load_state_dict gets its argument from a checkpoint, which
\* need not have been written by this tracer
checkpoint(t, to_load) ==
    /\ InUserCode(t)
    /\ saved' = Some(to_load)
    /\ UNCHANGED <<nsync, registry, dataset>>
    /\ UNCHANGED <<max_event_count, _enable, _event_list, _max_event_count,
                   _event_count, _is_cuda_available, clock, stack, call,
                   started, ncalls, writer_calls>>

\* self._enable = to_load["_enable"], to_load the snapshot at hand
load_state_dict_enable(t) ==
    /\ InUserCode(t)
    /\ saved # None
    /\ ncalls' = ncalls + 1
    /\ _enable' = LoadStateDict(saved[1])[1]
    /\ call' = [call EXCEPT ![t] =
                    [op |-> "load_state_dict", pc |-> "event_list",
                     arg |-> saved[1], prev |-> "none"]]
    /\ UNCHANGED <<nsync, registry, dataset>>
    /\ UNCHANGED <<max_event_count, _event_list, _max_event_count,
                   _event_count, _is_cuda_available, clock, stack, started,
                   saved, writer_calls>>

\* self._event_list = json.loads(to_load["_event_list"])
load_state_dict_event_list(t) ==
    /\ call[t].op = "load_state_dict"
    /\ call[t].pc = "event_list"
    /\ _event_list' = LoadStateDict(call[t].arg)[2]
    /\ call' = [call EXCEPT ![t] = [@ EXCEPT !.pc = "max_event_count"]]
    /\ UNCHANGED <<nsync, registry, dataset>>
    /\ UNCHANGED <<max_event_count, _enable, _max_event_count, _event_count,
                   _is_cuda_available, clock, stack, started, ncalls, saved,
                   writer_calls>>

\* self._max_event_count = to_load["_max_event_count"]
load_state_dict_max_event_count(t) ==
    /\ call[t].op = "load_state_dict"
    /\ call[t].pc = "max_event_count"
    /\ _max_event_count' = LoadStateDict(call[t].arg)[3]
    /\ call' = [call EXCEPT ![t] = [@ EXCEPT !.pc = "event_count"]]
    /\ UNCHANGED <<nsync, registry, dataset>>
    /\ UNCHANGED <<max_event_count, _enable, _event_list, _event_count,
                   _is_cuda_available, clock, stack, started, ncalls, saved,
                   writer_calls>>

\* self._event_count = to_load["_event_count"]
load_state_dict_event_count(t) ==
    /\ call[t].op = "load_state_dict"
    /\ call[t].pc = "event_count"
    /\ _event_count' = LoadStateDict(call[t].arg)[4]
    /\ call' = [call EXCEPT ![t] = Returned("load_state_dict", <<>>, @.prev)]
    /\ UNCHANGED <<nsync, registry, dataset>>
    /\ UNCHANGED <<max_event_count, _enable, _event_list, _max_event_count,
                   _is_cuda_available, clock, stack, started, ncalls, saved,
                   writer_calls>>

\* the statements of load_state_dict after the first
load_state_dict_rest(t) ==
    \/ load_state_dict_event_list(t)
    \/ load_state_dict_max_event_count(t)
    \/ load_state_dict_event_count(t)

(* ------------------------------ DummyTracer ---------------------------- *)
Called(op, pc, arg, ret, raised) ==
    [op |-> op, pc |-> pc, arg |-> arg, ret |-> ret, raised |-> raised]

\* DummyTracer.add_event: the generator runs to its yield, which is nothing
DummyTracer_add_event_enter(name) ==
    /\ result.pc = "done"
    /\ result' = Called("DummyTracer.add_event", "body", name, None, None)
    /\ UNCHANGED <<_tracer, created, dataset, nsync>>
    /\ UNCHANGED <<max_event_count, _enable, _event_list, _max_event_count,
                   _event_count, _is_cuda_available, clock, stack, call,
                   started, ncalls, saved, writer_calls>>

\* the with-block ends, normally or by raising exc: nothing follows the yield,
\* and an exception thrown into the generator at the yield leaves it again
DummyTracer_add_event_exit(exc) ==
    /\ result.pc = "body"
    /\ result' = Called("DummyTracer.add_event", "done", exc, None,
                        Propagate(exc))
    /\ UNCHANGED <<_tracer, created, dataset, nsync>>
    /\ UNCHANGED <<max_event_count, _enable, _event_list, _max_event_count,
                   _event_count, _is_cuda_available, clock, stack, call,
                   started, ncalls, saved, writer_calls>>

\* DummyTracer.clear: pass
DummyTracer_clear ==
    /\ result.pc = "done"
    /\ result' = Called("DummyTracer.clear", "done", <<>>, None, None)
    /\ UNCHANGED <<_tracer, created, dataset, nsync>>
    /\ UNCHANGED <<max_event_count, _enable, _event_list, _max_event_count,
                   _event_count, _is_cuda_available, clock, stack, call,
                   started, ncalls, saved, writer_calls>>

\* DummyTracer.flush: pass
DummyTracer_flush(filename) ==
    /\ result.pc = "done"
    /\ result' = Called("DummyTracer.flush", "done", filename, None, None)
    /\ UNCHANGED <<_tracer, created, dataset, nsync>>
    /\ UNCHANGED <<max_event_count, _enable, _event_list, _max_event_count,
                   _event_count, _is_cuda_available, clock, stack, call,
                   started, ncalls, saved, writer_calls>>

\* DummyTracer defines no enable: the call runs Tracer.enable, which is
\* raise NotImplementedError("Tracers must implement enable")
DummyTracer_enable(enable_flag) ==
    /\ result.pc = "done"
    /\ result' = Called("DummyTracer.enable", "done", enable_flag, None,
                        Some("NotImplementedError"))
    /\ UNCHANGED <<_tracer, created, dataset, nsync>>
    /\ UNCHANGED <<max_event_count, _enable, _event_list, _max_event_count,
                   _event_count, _is_cuda_available, clock, stack, call,
                   started, ncalls, saved, writer_calls>>

(* ------------------------------- registry ------------------------------ *)
\* the classes get_tracer may be given
TracerClasses == {"ChromeTracer", "DummyTracer", "Tracer"}

\* tracer_cls(): the n-th tracer the registry constructs
NewTracer(tracer_cls, n) == [cls |-> tracer_cls, id |-> n]

\* the registry holds a tracer of class cls
Holds(cls) == _tracer # None /\ _tracer[1].cls = cls

\* get_tracer(tracer_cls), up to its return or raise: the tracer the registry
\* holds afterwards, whether it was constructed, and the exception raised
GetTracer(tracer_cls) ==
    LET construct == _tracer = None
        held == IF construct THEN Some(NewTracer(tracer_cls, created + 1))
                ELSE _tracer
    IN  [held |-> held,
         construct |-> construct,
         raised |-> IF held[1].cls # tracer_cls THEN Some("TypeError")
                    ELSE None]

\* ChromeTracer(): the fields of the tracer get_tracer constructs, whose
\* arguments are the defaults max_event_count=None and enable=True
ChromeTracer_default(construct) ==
    IF construct
    THEN /\ max_event_count' = None
         /\ _enable' = TRUE
         /\ _max_event_count' = OrInf(None)
    ELSE UNCHANGED <<max_event_count, _enable, _max_event_count>>

\* faulty variant: a registry that takes the class asked for
get_tracer_Replaces(tracer_cls) ==
    /\ InUserCode(1)
    /\ result.pc = "done"
    /\ _tracer' = Some(NewTracer(tracer_cls, created + 1))
    /\ created' = created + 1
    /\ result' = Called("get_tracer", "done", tracer_cls, _tracer', None)
    /\ IF tracer_cls = "ChromeTracer"
       THEN /\ ChromeTracer_default(TRUE)
            /\ _event_list' = <<>>
            /\ _event_count' = 0
       ELSE UNCHANGED <<max_event_count, _enable, _event_list,
                        _max_event_count, _event_count>>
    /\ UNCHANGED <<dataset, nsync>>
    /\ UNCHANGED <<_is_cuda_available, clock, stack, call, started, ncalls,
                   saved, writer_calls>>

\* get_tracer(tracer_cls)
get_tracer(tracer_cls) ==
    /\ InUserCode(1)
    /\ result.pc = "done"
    /\ LET got == GetTracer(tracer_cls) IN
        /\ _tracer' = got.held
        /\ created' = IF got.construct THEN created + 1 ELSE created
        /\ result' = Called("get_tracer", "done", tracer_cls,
                            IF got.raised = None THEN got.held ELSE None,
                            got.raised)
        /\ IF got.construct /\ tracer_cls = "ChromeTracer"
           THEN /\ ChromeTracer_default(TRUE)
                /\ _event_list' = <<>>
                /\ _event_count' = 0
           ELSE UNCHANGED <<max_event_count, _enable, _event_list,
                            _max_event_count, _event_count>>
    /\ UNCHANGED <<dataset, nsync>>
    /\ UNCHANGED <<_is_cuda_available, clock, stack, call, started, ncalls,
                   saved, writer_calls>>

\* clear_tracer(): get_tracer().clear(), get_tracer's argument the default
\* ChromeTracer; the tracer it returns is a ChromeTracer
clear_tracer ==
    /\ InUserCode(1)
    /\ result.pc = "done"
    /\ LET got == GetTracer("ChromeTracer") IN
        /\ _tracer' = got.held
        /\ created' = IF got.construct THEN created + 1 ELSE created
        /\ result' = Called("clear_tracer", "done", <<>>, None, got.raised)
        /\ IF got.raised = None
           THEN /\ ChromeTracer_default(got.construct)
                /\ _event_list' = <<>>
                /\ _event_count' = 0
           ELSE UNCHANGED <<max_event_count, _enable, _event_list,
                            _max_event_count, _event_count>>
    /\ UNCHANGED <<dataset, nsync>>
    /\ UNCHANGED <<_is_cuda_available, clock, stack, call, started, ncalls,
                   saved, writer_calls>>

(* ------------------- create_distributed_subset_indices ------------------ *)
\* the ranks of num_replicas replicas
Ranks(replicas) == 0 .. replicas - 1

\* list(range(n))
Range(n) == [i \in 1 .. n |-> i - 1]

\* n!
Factorial(n) ==
    LET f[i \in 0 .. n] == IF i = 0 THEN 1 ELSE i * f[i - 1] IN f[n]

\* s without its i-th element
Without(s, i) == SubSeq(s, 1, i - 1) \o SubSeq(s, i + 1, Len(s))

\* np.random.RandomState(seed).shuffle(indices): a permutation of indices that
\* the seed and the length determine; here the one whose number, among the
\* permutations of that length in lexicographic order, is the seed
RECURSIVE RandomState_shuffle(_, _)
RandomState_shuffle(indices, k) ==
    IF indices = <<>>
    THEN <<>>
    ELSE LET f == Factorial(Len(indices) - 1)
             i == ((k \div f) % Len(indices)) + 1
         IN  <<indices[i]>> \o RandomState_shuffle(Without(indices, i), k % f)

\* indices[b:e] for 0 <= b: the elements at b, ..., e - 1 that the list has
Slice(indices, b, e) ==
    LET clip(i) == IF i < Len(indices) THEN i ELSE Len(indices)
    IN  SubSeq(indices, clip(b) + 1, clip(e))

\* faulty variant: the samples of a rank rounded down
NSubSamples_Floor(total, replicas) == total \div replicas

\* n_sub_samples = (num_total_samples + num_replicas - 1) // num_replicas
NSubSamples(total, replicas) == (total + replicas - 1) \div replicas

\* the list create_distributed_subset_indices returns
SubsetIndices(total, replicas, rank, shuf, sd) ==
    LET indices == IF shuf THEN RandomState_shuffle(Range(total), sd)
                   ELSE Range(total)
        n_sub_samples == NSubSamples(total, replicas)
        b == (total * rank) \div replicas
        e == b + n_sub_samples
    IN  Slice(indices, b, e)

\* create_distributed_subset_indices(num_total_samples, num_replicas, rank,
\* shuffle, seed), called on replica rank
create_distributed_subset_indices(rank) ==
    /\ returned' = [returned EXCEPT ![rank] =
            Some(SubsetIndices(num_total_samples, num_replicas, rank, shuffle,
                               seed))]
    /\ UNCHANGED <<num_total_samples, num_replicas, shuffle, seed>>
    /\ UNCHANGED <<nsync, registry>>
    /\ UNCHANGED <<max_event_count, _enable, _event_list, _max_event_count,
                   _event_count, _is_cuda_available, clock, stack, call,
                   started, ncalls, saved, writer_calls>>

(* --------------------------- specifications ---------------------------- *)
\* thread t may enter one more span, of at most maxSpans, depth deep at most
MayEnter(t, maxSpans, depth) ==
    /\ started[t] < maxSpans
    /\ Len(stack[t]) < depth

\* any number of threads, every operation, every interleaving
Next ==
    \/ \E t \in Threads :
            /\ MayEnter(t, MaxSpans, 1)
            /\ \E now \in Times : add_event_enter(t, now)
    \/ \E t \in Threads : add_event_exit(t, Times)
    \/ /\ ncalls < MaxCalls
       /\ \E t \in Threads :
            \/ \E enable_flag \in BOOLEAN : enable(t, enable_flag)
            \/ \E filename \in Filenames : flush_if_not_enable(t, filename)
            \/ clear_event_list(t)
            \/ state_dict_enable(t)
            \/ load_state_dict_enable(t)
    \/ \E t \in Threads :
            \/ flush_writer(t)
            \/ clear_event_count(t)
            \/ state_dict_rest(t)
            \/ load_state_dict_rest(t)

Spec == Init /\ [][Next]_vars

\* one thread, every operation: the calls happen one after the other
NextSeq ==
    \/ /\ MayEnter(1, SeqSpans, SeqDepth)
       /\ \E now \in SeqTimes : add_event_enter(1, now)
    \/ add_event_exit(1, SeqTimes)
    \/ /\ ncalls < SeqCalls
       /\ \/ \E enable_flag \in BOOLEAN : enable(1, enable_flag)
          \/ \E filename \in Filenames : flush_if_not_enable(1, filename)
          \/ clear_event_list(1)
          \/ state_dict_enable(1)
          \/ load_state_dict_enable(1)
    \/ flush_writer(1)
    \/ clear_event_count(1)
    \/ state_dict_rest(1)
    \/ load_state_dict_rest(1)

SpecSeq == Init /\ [][NextSeq]_vars

\* several threads that only run add_event spans, ConcSpans each
NextSpans ==
    \/ \E t \in Threads :
            /\ MayEnter(t, ConcSpans, ConcDepth)
            /\ \E now \in Times : add_event_enter(t, now)
    \/ \E t \in Threads : add_event_exit(t, Times)

SpecSpans == Init /\ [][NextSpans]_vars

\* one thread that only runs add_event spans
NextOne ==
    \/ /\ MayEnter(1, SeqSpans, SeqDepth)
       /\ \E now \in Times : add_event_enter(1, now)
    \/ add_event_exit(1, Times)

SpecOne == Init /\ [][NextOne]_vars

\* the registry, before anything has called get_tracer: the fields are those
\* of the ChromeTracer it would construct
InitRegistry ==
    /\ \E cuda \in BOOLEAN : ChromeTracer_init(None, TRUE, cuda)
    /\ NoThread
    /\ NoRegistry
    /\ NoDataset

\* one thread that calls get_tracer and clear_tracer, runs add_event spans on
\* the ChromeTracer the registry holds, and calls the DummyTracer it holds
NextRegistry ==
    \/ \E tracer_cls \in TracerClasses : get_tracer(tracer_cls)
    \/ clear_tracer
    \/ /\ Holds("ChromeTracer")
       /\ \/ /\ MayEnter(1, RegSpans, 1)
             /\ \E now \in SeqTimes : add_event_enter(1, now)
          \/ add_event_exit(1, SeqTimes)
    \/ /\ Holds("DummyTracer")
       /\ \/ \E name \in {NameOf(1, 1)} : DummyTracer_add_event_enter(name)
          \/ \E exc \in {None} \cup {Some(e) : e \in Errors} :
                DummyTracer_add_event_exit(exc)
          \/ DummyTracer_clear
          \/ \E filename \in Filenames : DummyTracer_flush(filename)
          \/ \E enable_flag \in BOOLEAN : DummyTracer_enable(enable_flag)

SpecRegistry == InitRegistry /\ [][NextRegistry]_vars

\* one thread that runs add_event spans and restores snapshots of a checkpoint
NextLoad ==
    \/ /\ MayEnter(1, LoadSpans, 1)
       /\ \E now \in SeqTimes : add_event_enter(1, now)
    \/ add_event_exit(1, SeqTimes)
    \/ /\ ncalls < LoadCalls
       /\ \/ /\ saved = None
             /\ \E to_load \in Snapshots : checkpoint(1, to_load)
          \/ load_state_dict_enable(1)
    \/ load_state_dict_rest(1)

SpecLoad == Init /\ [][NextLoad]_vars

\* the replicas of a job, before any has called
\* create_distributed_subset_indices: the arguments are the same on all
InitSubset ==
    /\ \E cuda \in BOOLEAN : ChromeTracer_init(None, TRUE, cuda)
    /\ NoThread
    /\ NoRegistry
    /\ num_total_samples \in 0 .. MaxSamples
    /\ num_replicas \in 1 .. MaxReplicas
    /\ shuffle \in BOOLEAN
    /\ seed \in 0 .. MaxSeed
    /\ returned = [rank \in Ranks(num_replicas) |-> None]

\* the replicas call create_distributed_subset_indices, in any order
NextSubset ==
    \E rank \in Ranks(num_replicas) : create_distributed_subset_indices(rank)

SpecSubset == InitSubset /\ [][NextSubset]_vars

(* ------------------------------ properties ----------------------------- *)
Min(a, b) == IF a < b THEN a ELSE b
Last(s) == s[Len(s)]
NamesOf(event_list) == [i \in 1 .. Len(event_list) |-> event_list[i].name]
\* spans that have been entered and left
Completed == {<<t, n>> \in Threads \X (1 .. SeqSpans + ConcSpans + MaxSpans) :
                n <= started[t] /\ \A i \in 1 .. Len(stack[t]) :
                                        stack[t][i].name # NameOf(t, n)}
\* every thread of SpecSpans has run its ConcSpans spans to the end
AllSpansDone == \A t \in Threads : started[t] = ConcSpans /\ stack[t] = <<>>
\* the record is complete and is the record of span n of thread t
RecordOf(e, t, n) ==
    /\ DOMAIN e = EventKeys
    /\ e.name = NameOf(t, n)
    /\ e.cat = ""
    /\ e.ph = "X"
    /\ e.pid = Pid
    /\ e.tid = NativeId(t)
    /\ e.ts.den = 1000 /\ e.dur.den = 1000

\* C1: whatever the threads and the owner calls do, the buffer of a tracer
\* constructed with max_event_count = K never holds more than K records.
C1_BufferWithinMax ==
    max_event_count # None => Len(_event_list) <= max_event_count[1]

\* C2: once T threads have each run M spans on an enabled tracer, the buffer
\* holds exactly min(T * M, max_event_count) records, each the complete
\* record of exactly one of the spans.
C2_ConcurrentExactCount ==
    (_enable /\ AllSpansDone) =>
        /\ Len(_event_list) =
                IF max_event_count = None
                THEN Cardinality(Threads) * ConcSpans
                ELSE Min(Cardinality(Threads) * ConcSpans, max_event_count[1])
        /\ \A i \in 1 .. Len(_event_list) :
                \E c \in Completed : RecordOf(_event_list[i], c[1], c[2])
        /\ \A i, j \in 1 .. Len(_event_list) :
                _event_list[i].name = _event_list[j].name => i = j

\* C3: N > K spans run one after the other by one thread on an enabled
\* tracer constructed with max_event_count = K leave exactly the records of
\* the first K spans, in call order (in SpecSpans no span is entered inside
\* another one).
C3_FirstKRecorded ==
    (/\ max_event_count # None
     /\ _enable
     /\ \A t \in Threads \ {1} : started[t] = 0
     /\ stack[1] = <<>>
     /\ started[1] > max_event_count[1]) =>
        NamesOf(_event_list) = [i \in 1 .. max_event_count[1] |-> NameOf(1, i)]

\* C4: a tracer constructed with max_event_count = 0 records nothing.
C4_ZeroMaxRecordsNothing ==
    max_event_count = Some(0) => _event_list = <<>>

\* C5: on an enabled tracer constructed with the default max_event_count,
\* the buffer holds exactly one record per completed span, each with a
\* duration >= 0.
C5_UnboundedRecordsAll ==
    (max_event_count = None /\ _enable) =>
        /\ Len(_event_list) = Cardinality(Completed)
        /\ \A c \in Completed :
                \E i \in 1 .. Len(_event_list) :
                    /\ RecordOf(_event_list[i], c[1], c[2])
                    /\ \A j \in 1 .. Len(_event_list) :
                            _event_list[j].name = NameOf(c[1], c[2]) => j = i
        /\ \A i \in 1 .. Len(_event_list) :
                /\ _event_list[i].dur.num >= 0
                /\ _event_list[i].dur.den > 0

\* C5 witness: SeqSpans spans have completed, nested ones among them, and
\* all are recorded, one of them with a duration above zero
C5_Witness ==
    /\ max_event_count = None
    /\ _enable
    /\ started[1] = SeqSpans
    /\ stack[1] = <<>>
    /\ Len(_event_list) = SeqSpans
    /\ _event_list[1].name # NameOf(1, 1)
    /\ \E i \in 1 .. Len(_event_list) : _event_list[i].dur.num > 0


(* ---- steps of a thread, told from the states before and after them ---- *)
\* t executes the first statement of the owner call op
Begins(t, op) ==
    /\ ncalls' = ncalls + 1
    /\ call[t].pc = "done"
    /\ call'[t].op = op
\* t executes the statement at pc of the owner call op
Executes(t, op, pc) ==
    /\ call[t].op = op
    /\ call[t].pc = pc
    /\ call'[t].pc # pc
\* the with-block of t's innermost span ends and its finally block begins
ExitBegins(t) ==
    /\ stack[t] # <<>>
    /\ Top(t).pc = "body"
    /\ \/ Len(stack'[t]) < Len(stack[t])
       \/ /\ Len(stack'[t]) = Len(stack[t])
          /\ stack'[t][Len(stack[t])].pc = "if_count"
\* t executes the statement at pc of the finally block of its innermost span
InFinallyStep(t, pc) ==
    /\ InFinally(t, pc)
    /\ stack'[t] # stack[t]
\* t's innermost span is left
Leaves(t) == Len(stack'[t]) < Len(stack[t])

\* C6: flush never calls the writer while the tracer is disabled; while it
\* is enabled it calls the writer once, with the name given and the whole
\* event list; it changes no field of the tracer; nothing but flush calls
\* the writer.
C6_Flush ==
    [][/\ \A t \in Threads :
            /\ Begins(t, "flush") =>
                    /\ tracer' = tracer
                    /\ writer_calls' = writer_calls
                    /\ call'[t].arg \in Filenames
                    /\ call'[t].pc = IF _enable THEN "writer" ELSE "done"
            /\ Executes(t, "flush", "writer") =>
                    /\ _enable
                    /\ tracer' = tracer
                    /\ writer_calls' = Append(writer_calls,
                            [filename |-> call[t].arg, out_dir |-> "",
                             target |-> _event_list])
                    /\ call'[t].op = "flush"
                    /\ call'[t].pc = "done"
       /\ writer_calls' # writer_calls =>
            \E t \in Threads : Executes(t, "flush", "writer")
      ]_vars

\* C6 witness: flush has returned on a disabled tracer whose buffer holds
\* records, and the writer was never called
C6_Witness ==
    /\ call[1].op = "flush"
    /\ call[1].pc = "done"
    /\ ~_enable
    /\ _event_list # <<>>
    /\ writer_calls = <<>>

\* C7: clear leaves the buffer empty and the counter at zero and keeps the
\* enabled flag and the max count; the flush that follows it on an enabled
\* tracer hands the writer an empty list.
C7_Clear ==
    [][\A t \in Threads :
            /\ Begins(t, "clear") =>
                    /\ _event_list' = <<>>
                    /\ _enable' = _enable
                    /\ _max_event_count' = _max_event_count
            /\ Executes(t, "clear", "count") =>
                    /\ call'[t].op = "clear"
                    /\ call'[t].pc = "done"
                    /\ _event_list' = <<>>
                    /\ _event_count' = 0
                    /\ _enable' = _enable
                    /\ _max_event_count' = _max_event_count
            /\ (Begins(t, "flush") /\ call[t].op = "clear" /\ _enable) =>
                    /\ call'[t].pc = "writer"
                    /\ call'[t].prev = "clear"
            /\ (Executes(t, "flush", "writer") /\ call[t].prev = "clear") =>
                    /\ Len(writer_calls') = Len(writer_calls) + 1
                    /\ Last(writer_calls').target = <<>>
      ]_vars

\* C7 witness: spans were recorded (the tracer is enabled and unbounded, and
\* the two owner calls made are clear and flush), clear emptied the buffer
\* and the flush right after it gave the writer an empty list
C7_Witness ==
    /\ call[1].op = "flush"
    /\ call[1].pc = "done"
    /\ call[1].prev = "clear"
    /\ _enable
    /\ max_event_count = None
    /\ started[1] >= 1
    /\ stack[1] = <<>>
    /\ Len(writer_calls) = 1
    /\ writer_calls[1].target = <<>>

\* C8: enable changes the enabled flag and nothing else; a span left while
\* the tracer is disabled adds no record; a span left while it is enabled
\* goes on to the cap check, and is recorded iff the counter is below the
\* cap, by an append after the records the buffer holds, which stay as
\* they are.
C8_Enable ==
    [][\A t \in Threads :
            /\ Begins(t, "enable") =>
                    /\ call'[t].pc = "done"
                    /\ _enable' = call'[t].arg
                    /\ _event_list' = _event_list
                    /\ _event_count' = _event_count
                    /\ _max_event_count' = _max_event_count
            /\ (Leaves(t) /\ ~_enable) =>
                    /\ _event_list' = _event_list
                    /\ _event_count' = _event_count
            /\ (ExitBegins(t) /\ _enable) => ~Leaves(t)
            /\ InFinallyStep(t, "if_count") =>
                    /\ Leaves(t) <=> ~BelowCap(_event_count, _max_event_count)
                    /\ _event_list' = _event_list
            /\ (Leaves(t) /\ Top(t).pc = "append") =>
                    /\ Len(_event_list') = Len(_event_list) + 1
                    /\ SubSeq(_event_list', 1, Len(_event_list)) = _event_list
                    /\ RecordOf(Last(_event_list'), Top(t).name[1], Top(t).name[2])
      ]_vars

\* C8 witness: the first span was recorded, the second one was left while
\* the tracer was disabled, and the third one was recorded after enable(True),
\* behind the record of the first (the two owner calls made are the enables:
\* nothing was cleared or restored, and the tracer is unbounded)
C8_Witness ==
    /\ max_event_count = None
    /\ _enable
    /\ saved = None
    /\ call[1].op = "__exit__"
    /\ stack[1] = <<>>
    /\ started[1] = 3
    /\ NamesOf(_event_list) = <<NameOf(1, 1), NameOf(1, 3)>>

\* C9: state_dict changes no field of the tracer, and load_state_dict of the
\* snapshot it returns leaves a tracer with the enabled flag, the event list,
\* the max count and the counter the tracer had when the snapshot was made,
\* whatever the state of the tracer that loads it.
C9_RoundTrip ==
    [][\A t \in Threads :
            /\ (\/ Begins(t, "state_dict")
                \/ call[t].op = "state_dict" /\ call[t].pc # "done") =>
                    tracer' = tracer
            /\ Executes(t, "state_dict", "event_count") =>
                    /\ call'[t].pc = "done"
                    /\ saved' # None
                    /\ DOMAIN saved'[1] = {"_enable", "_event_list",
                                           "_max_event_count", "_event_count"}
                    /\ LoadStateDict(saved'[1]) = tracer
            /\ Begins(t, "load_state_dict") =>
                    /\ saved # None
                    /\ call'[t].arg = saved[1]
            /\ Executes(t, "load_state_dict", "event_count") =>
                    /\ call'[t].pc = "done"
                    /\ _enable' = call[t].arg._enable
                    /\ _event_list' = json_loads(call[t].arg._event_list)
                    /\ _max_event_count' = call[t].arg._max_event_count
                    /\ _event_count' = call[t].arg._event_count
      ]_vars

\* C9 witness: a snapshot was made with one record in the buffer, a second
\* span was recorded, and load_state_dict brought the one record back (the
\* tracer is unbounded and was enabled all along: the two owner calls made are
\* state_dict and load_state_dict)
C9_Witness ==
    /\ call[1].op = "load_state_dict"
    /\ call[1].pc = "done"
    /\ max_event_count = None
    /\ _enable
    /\ stack[1] = <<>>
    /\ started[1] = 2
    /\ Len(_event_list) = 1
    /\ _event_count = 1

\* C10: when the with-block of a span raises, the finally block runs as it
\* does on a normal exit -- no record while disabled, the cap check
\* otherwise, then the counter one up and the record of the span appended --
\* and the with statement raises the same error in the caller.
C10_ErrorPropagates ==
    [][\A t \in Threads :
            /\ ExitBegins(t) =>
                    /\ _event_list' = _event_list
                    /\ _event_count' = _event_count
                    /\ Leaves(t) <=> ~_enable
                    /\ ~Leaves(t) => stack'[t][Len(stack[t])].exc = call'[t].arg
            /\ InFinallyStep(t, "if_count") =>
                    /\ Leaves(t) <=> ~BelowCap(_event_count, _max_event_count)
                    /\ _event_list' = _event_list
                    /\ _event_count' = _event_count
            /\ InFinallyStep(t, "store") =>
                    /\ _event_count' = _event_count + 1
                    /\ _event_list' = _event_list
            /\ InFinallyStep(t, "append") =>
                    /\ Leaves(t)
                    /\ _event_count' = _event_count
                    /\ _event_list' = Append(_event_list,
                            Event(Top(t).name, Top(t).begin_ns,
                                  Top(t).duration_ns, Pid, NativeId(t)))
            /\ (Leaves(t) /\ Top(t).pc # "body") =>
                    call'[t].arg = Top(t).exc
            /\ Leaves(t) =>
                    /\ call'[t].op = "__exit__"
                    /\ call'[t].pc = "done"
                    /\ call'[t].ret = call'[t].arg
      ]_vars

\* C10 witness: the with-block of the only span raised RuntimeError, the
\* span was recorded, and RuntimeError reached the caller
C10_Witness ==
    /\ call[1].op = "__exit__"
    /\ call[1].pc = "done"
    /\ call[1].arg = Some("RuntimeError")
    /\ call[1].ret = Some("RuntimeError")
    /\ started[1] = 1
    /\ _event_count = 1
    /\ NamesOf(_event_list) = <<NameOf(1, 1)>>

(* -------------------------- the finally block --------------------------- *)
\* where the span t is leaving is after the step
PcAfter(t) == stack'[t][Len(stack[t])].pc

\* C14: a span that exits while the tracer is disabled, or while the counter
\* is not below the max count, appends no record, leaves the counter alone
\* and does not synchronize the device; a span that is recorded synchronizes
\* the device exactly when an accelerator was found at construction, and
\* does so before the counter goes up and the record is appended.
C14_Synchronize ==
    [][/\ \A t \in Threads :
            /\ (ExitBegins(t) /\ ~_enable) =>
                    /\ Leaves(t)
                    /\ UNCHANGED <<_event_list, _event_count, nsync>>
            /\ (InFinallyStep(t, "if_count")
                  /\ ~BelowCap(_event_count, _max_event_count)) =>
                    /\ Leaves(t)
                    /\ UNCHANGED <<_event_list, _event_count, nsync>>
            /\ (InFinallyStep(t, "if_count")
                  /\ BelowCap(_event_count, _max_event_count)) =>
                    /\ ~Leaves(t)
                    /\ PcAfter(t) = IF _is_cuda_available THEN "sync" ELSE "load"
                    /\ UNCHANGED <<_event_list, _event_count, nsync>>
            /\ InFinallyStep(t, "sync") =>
                    /\ _is_cuda_available
                    /\ nsync' = nsync + 1
                    /\ PcAfter(t) = "load"
                    /\ UNCHANGED <<_event_list, _event_count>>
            /\ InFinallyStep(t, "load") =>
                    /\ PcAfter(t) = "store"
                    /\ UNCHANGED <<_event_list, _event_count, nsync>>
            /\ InFinallyStep(t, "store") =>
                    /\ _event_count' = _event_count + 1
                    /\ PcAfter(t) = "duration"
                    /\ UNCHANGED <<_event_list, nsync>>
            /\ InFinallyStep(t, "duration") =>
                    /\ PcAfter(t) = "append"
                    /\ UNCHANGED <<_event_list, _event_count, nsync>>
            /\ InFinallyStep(t, "append") =>
                    /\ Leaves(t)
                    /\ Len(_event_list') = Len(_event_list) + 1
                    /\ UNCHANGED <<_event_count, nsync>>
       /\ nsync' # nsync => \E t \in Threads : InFinallyStep(t, "sync")
      ]_vars

\* C14 witness: with an accelerator and a max count of one, the first span
\* was recorded after one synchronization and the second left without one
C14_Witness ==
    /\ _is_cuda_available
    /\ max_event_count = Some(1)
    /\ _enable
    /\ ncalls = 0
    /\ started[1] = 2
    /\ stack[1] = <<>>
    /\ nsync = 1
    /\ _event_count = 1
    /\ NamesOf(_event_list) = <<NameOf(1, 1)>>

\* t enters a span
Enters(t) == Len(stack'[t]) > Len(stack[t])

\* the spans that are open, none of them has a record in the buffer
NoRecordOfOpenSpan ==
    \A t \in Threads : \A i \in 1 .. Len(stack[t]) :
        \A j \in 1 .. Len(_event_list) : _event_list[j].name # stack[t][i].name

\* C15: a record enters the buffer when its span exits, not when it is
\* entered: entering a span leaves the buffer as it is, the append of an exit
\* puts the record of the span being left (the innermost one open) at the
\* end of the buffer, so that the record of an inner span comes before the
\* record of the span around it, and a span that is open has no record.
C15_RecordedAtExit ==
    [][/\ \A t \in Threads :
            /\ Enters(t) => _event_list' = _event_list
            /\ InFinallyStep(t, "append") =>
                    /\ Leaves(t)
                    /\ Len(_event_list') = Len(_event_list) + 1
                    /\ SubSeq(_event_list', 1, Len(_event_list)) = _event_list
                    /\ Last(_event_list').name = Top(t).name
                    /\ \A i \in 1 .. Len(stack'[t]) : \A j \in 1 .. Len(_event_list') :
                            _event_list'[j].name # stack'[t][i].name
       /\ Len(_event_list') > Len(_event_list) =>
            \E t \in Threads : \/ InFinallyStep(t, "append")
                               \/ Executes(t, "load_state_dict", "event_list")
       /\ NoRecordOfOpenSpan'
      ]_vars

\* C15 witness: the second span ran inside the first, and its record is the
\* first of the buffer, before the record of the first span; the third span
\* is open and has no record
C15_Witness ==
    /\ NamesOf(_event_list) = <<NameOf(1, 2), NameOf(1, 1)>>
    /\ Len(stack[1]) = 1
    /\ Top(1).name = NameOf(1, 3)
    /\ Top(1).pc = "body"

\* t executes the first statement of clear: self._event_list = []
ClearsList(t) ==
    /\ call[t].pc = "done"
    /\ call'[t].op = "clear"
    /\ call'[t].pc = "count"

\* C16: between clears and restores the buffer only grows at its end: with
\* the spans of several threads interleaved with enable, flush and
\* state_dict in any way, a step leaves the buffer as it is or is the append
\* of a span that puts one record at its end; the records that are in the
\* buffer stay what and where they are, but for clear and load_state_dict.
C16_AppendOnly ==
    [][_event_list' # _event_list =>
            \/ \E t \in Threads :
                    /\ InFinallyStep(t, "append")
                    /\ Len(_event_list') = Len(_event_list) + 1
                    /\ SubSeq(_event_list', 1, Len(_event_list)) = _event_list
            \/ \E t \in Threads : ClearsList(t)
            \/ \E t \in Threads : Executes(t, "load_state_dict", "event_list")
      ]_vars

\* C16 witness: the spans of two threads were recorded with a flush and a
\* state_dict in between: the writer got the first record, and the buffer
\* holds it still, before the second
C16_Witness ==
    /\ Len(_event_list) = 2
    /\ _event_list[1].tid # _event_list[2].tid
    /\ Len(writer_calls) = 1
    /\ writer_calls[1].target = <<_event_list[1]>>
    /\ saved # None
    /\ \E t \in Threads : call[t].op = "state_dict" /\ call[t].pc = "done"

\* C17: whether a span that exits is recorded is decided by the counter,
\* not by the length of the buffer: load_state_dict sets the counter and the
\* max count to those of the snapshot, whatever the buffer it restores; a
\* span that exits on an enabled tracer is left unrecorded exactly when the
\* counter is not below the max count, and is recorded otherwise.
C17_CounterDecides ==
    [][\A t \in Threads :
            /\ Executes(t, "load_state_dict", "max_event_count") =>
                    _max_event_count' = saved[1]._max_event_count
            /\ Executes(t, "load_state_dict", "event_count") =>
                    /\ _event_count' = saved[1]._event_count
                    /\ _event_list' = _event_list
            /\ (ExitBegins(t) /\ _enable) => ~Leaves(t)
            /\ InFinallyStep(t, "if_count") =>
                    /\ _event_list' = _event_list
                    /\ Leaves(t) <=> /\ ~_max_event_count.inf
                                     /\ _event_count >= _max_event_count.n
            /\ (Leaves(t) /\ Top(t).pc \notin {"body", "if_count"}) =>
                    /\ Top(t).pc = "append"
                    /\ Len(_event_list') = Len(_event_list) + 1
                    /\ Last(_event_list').name = Top(t).name
      ]_vars

\* C17 witness: a snapshot was restored whose counter is at the max count and
\* whose buffer holds fewer records than that, and the span that exited then,
\* on the enabled tracer, has no record
C17_Witness ==
    /\ call[1].op = "__exit__"
    /\ call[1].pc = "done"
    /\ started[1] = 1
    /\ _enable
    /\ ~_max_event_count.inf
    /\ _event_count >= _max_event_count.n
    /\ Len(_event_list) < _max_event_count.n
    /\ saved # None
    /\ saved[1]._event_count = _event_count
    /\ json_loads(saved[1]._event_list) = _event_list

\* C18: with one thread, whenever it is in no call of the tracer and in no
\* finally block of a span -- after any add_event spans, nested or failing,
\* and any enable, flush, state_dict, clear and load_state_dict of a snapshot
\* that state_dict returned -- the counter is the number of records in the
\* buffer.
C18_CountIsLength ==
    InUserCode(1) => _event_count = Len(_event_list)

\* C18 witness: three spans were recorded, and load_state_dict has put back
\* the snapshot taken after the second: two records, and a counter of two
C18_Witness ==
    /\ call[1].op = "load_state_dict"
    /\ call[1].pc = "done"
    /\ started[1] = 3
    /\ stack[1] = <<>>
    /\ _enable
    /\ _max_event_count.inf
    /\ _event_count = 2
    /\ NamesOf(_event_list) = <<NameOf(1, 1), NameOf(1, 2)>>

(* ------------------------ registry and DummyTracer ---------------------- *)
\* the step is not a call of the registry or of a DummyTracer
SameResult ==
    IF result'.op # result.op \/ result'.pc # result.pc
    THEN FALSE
    ELSE /\ result'.arg = result.arg
         /\ result'.ret = result.ret
         /\ result'.raised = result.raised

\* the step is a call of op made to the registry or to a DummyTracer
Calls(op) == result'.op = op /\ ~SameResult

\* C11: get_tracer(kind) on an uninitialized registry constructs a tracer of
\* exactly that kind and stores it; on an initialized registry it returns the
\* very instance the registry holds when kind is its class, and raises
\* TypeError for any other kind, the instance and its buffer left as they
\* were; so the tracer the registry holds, once set, never changes, whatever
\* get_tracer and clear_tracer calls follow.
C11_GetTracer ==
    [][/\ Calls("get_tracer") /\ _tracer = None =>
            /\ _tracer' = Some(NewTracer(result'.arg, 1))
            /\ created' = 1
            /\ result'.raised = None
            /\ result'.ret = _tracer'
       /\ Calls("get_tracer") /\ _tracer # None =>
            /\ tracer' = tracer
            /\ IF _tracer[1].cls = result'.arg
               THEN result'.raised = None /\ result'.ret = _tracer
               ELSE result'.raised = Some("TypeError") /\ result'.ret = None
       /\ _tracer # None => _tracer' = _tracer /\ created' = created
      ]_vars

\* get_tracer was refused with a TypeError, the registry holding a
\* ChromeTracer of another class than asked for, with a record in its buffer
C11_Witness ==
    /\ result.op = "get_tracer"
    /\ result.raised = Some("TypeError")
    /\ result.arg = "DummyTracer"
    /\ Holds("ChromeTracer")
    /\ Len(_event_list) = 1

\* C12: in every state of the registry (nothing held, a ChromeTracer held, a
\* DummyTracer held) clear_tracer() returns without raising, empties the
\* buffer of the tracer held, and leaves the registry holding that tracer.
C12_ClearTracer ==
    [][Calls("clear_tracer") =>
            /\ result'.raised = None
            /\ _tracer # None => _tracer' = _tracer
            /\ Holds("ChromeTracer")' => _event_list' = <<>> /\ _event_count' = 0
      ]_vars

\* the operations of the Tracer contract, called on a DummyTracer
DummyTracerOps == {"DummyTracer.add_event", "DummyTracer.clear",
                   "DummyTracer.flush", "DummyTracer.enable"}

\* C13: on a DummyTracer every operation of the Tracer contract (add_event,
\* clear, flush, enable) returns without raising and changes nothing: no
\* field of a tracer, no call of the writer, no synchronization; an add_event
\* span raises only what its with-block raised.
C13_DummyTracerNoOp ==
    [][\A op \in DummyTracerOps : Calls(op) =>
            /\ IF op = "DummyTracer.add_event" /\ result'.pc = "done"
               THEN result'.raised = result'.arg
               ELSE result'.raised = None
            /\ UNCHANGED <<tracer, _tracer, created, writer_calls, nsync,
                           clock, stack, started>>
      ]_vars

(* ------------------- create_distributed_subset_indices ------------------ *)
\* the permutations of 0 .. n - 1, as lists
PermutationsOf(n) ==
    {p \in [1 .. n -> 0 .. n - 1] : \A i, j \in 1 .. n : p[i] = p[j] => i = j}

\* ceil(a / b)
Ceil(a, b) == IF a % b = 0 THEN a \div b ELSE (a \div b) + 1

\* the ranks that have their list
HaveReturned == {rank \in Ranks(num_replicas) : returned[rank] # None}

\* C19: for every num_total_samples N >= 0 and num_replicas R >= 1, and
\* shuffle and seed the same on all ranks, the lists returned to the ranks
\* 0 .. R - 1 are runs of consecutive elements of one permutation of
\* 0 .. N - 1, each of ceil(N / R) indices, and together they hold every
\* index of 0 .. N - 1.
C19_SubsetsCover ==
    /\ \E p \in PermutationsOf(num_total_samples) :
         \A rank \in HaveReturned :
            \E b \in 0 .. num_total_samples
                            - Ceil(num_total_samples, num_replicas) :
                returned[rank][1] =
                    SubSeq(p, b + 1, b + Ceil(num_total_samples, num_replicas))
    /\ \A rank \in HaveReturned :
            Len(returned[rank][1]) = Ceil(num_total_samples, num_replicas)
    /\ HaveReturned = Ranks(num_replicas) =>
            UNION {{returned[rank][1][i] : i \in 1 .. Len(returned[rank][1])} :
                        rank \in HaveReturned} = 0 .. num_total_samples - 1

\* C19 witness: four samples, shuffled, went to three ranks, two to each, and
\* the list of rank 1 begins with the index the list of rank 0 ends with
C19_Witness ==
    /\ num_total_samples = 4
    /\ num_replicas = 3
    /\ shuffle
    /\ HaveReturned = Ranks(num_replicas)
    /\ returned[0][1] # <<0, 1>>
    /\ Len(returned[0][1]) = 2
    /\ returned[1][1][1] = returned[0][1][2]

====
